---- MODULE Spec2Model ----
(***************************************************************************)
(* Vehicle physics and control core of the racing game.                    *)
(*                                                                         *)
(*   src/physics.js  PhysicsWorld and Vehicle.  The file holds two builds  *)
(*                   of both classes: the ramped-throttle build (lines     *)
(*                   1-308) and the direct-force build (lines 310-616).    *)
(*   src/game.js     key state, resetCar, updateVehicle, animate (lines    *)
(*                   1-828).                                               *)
(*                                                                         *)
(* Units.  All quantities are integers:                                    *)
(*   length            1/10 m                                              *)
(*   velocity          1/100 m/s                                           *)
(*   angular velocity  1 rad/s                                             *)
(*   time              1/600 s   (fixedTimeStep 1/60 s = 10)               *)
(*   throttle          1/1000                                              *)
(*   steering angle    1/10000 rad                                         *)
(*   wheel force       1/50 N    (engine force, brake force)               *)
(*   body force        1/10 N    (chassis force and torque accumulators)   *)
(*   suspension length 1/10 m                                              *)
(*   quaternion        integer components of norm 5 (q/5 is the unit       *)
(*                     quaternion), so rotated vectors carry a factor 25.  *)
(***************************************************************************)
EXTENDS Integers, Sequences, FiniteSets, TLC

VARIABLES
    vehicle,        \* the Vehicle object (game.js:17), see NewVehicle
    physicsWorld,   \* the PhysicsWorld object (game.js:16): the step accumulator
                    \* and the number of chassis bodies in its world
    keys,           \* the key-state object (game.js:52)
    gameStarted,    \* game.js:14
    timers,         \* pending setTimeout callbacks of resetCar, in firing order
    startTimers,    \* pending setTimeout callbacks of startGame, in firing order
    animationLoops, \* requestAnimationFrame chains running animate
    frames,         \* animate ticks run so far
    frame,          \* trace of the animate tick that just ended, or NoFrame
    last            \* trace of the last operation

vars == <<vehicle, physicsWorld, keys, gameStarted, timers, startTimers,
          animationLoops, frames, frame, last>>

----------------------------------------------------------------------------
(* Arithmetic helpers *)

Abs(n) == IF n < 0 THEN -n ELSE n

Min(a, b) == IF a <= b THEN a ELSE b

Max(a, b) == IF a >= b THEN a ELSE b

\* The not-a-number value of a coordinate: an integer no coordinate takes,
\* of which no comparison is true.
NaN == -1000000

\* a < b on numbers that may be NaN
Less(a, b) == a # NaN /\ b # NaN /\ a < b

\* Math.abs
MathAbs(a) == IF a = NaN THEN NaN ELSE Abs(a)

\* n / d rounded to the nearest integer (d > 0); the fixed-point image of a
\* floating-point division.
RoundDiv(n, d) == (2 * n + d) \div (2 * d)

Vec3(a, b, c) == [x |-> a, y |-> b, z |-> c]

Zero3 == Vec3(0, 0, 0)

Quat(a, b, c, d) == [x |-> a, y |-> b, z |-> c, w |-> d]

\* Squared norm shared by every quaternion of the model.
QN2 == 5 * 5

\* 25 * (q rotates the world up axis (0,1,0)): CANNON.Quaternion.vmult.
UpOf(q) == Vec3(2 * (q.x * q.y - q.w * q.z),
                q.w * q.w - q.x * q.x + q.y * q.y - q.z * q.z,
                2 * (q.y * q.z + q.w * q.x))

\* 25 * (q rotates the forward axis (0,0,-1)).
ForwardOf(q) == Vec3(-2 * (q.x * q.z + q.w * q.y),
                     -2 * (q.y * q.z - q.w * q.x),
                     -(q.w * q.w - q.x * q.x - q.y * q.y + q.z * q.z))

Dot(a, b) == a.x * b.x + a.y * b.y + a.z * b.z

\* Horizontal speed sqrt(vx^2 + vz^2); the model's velocities have an exact root.
MaxSpeed == 30 * 100

HorizontalSpeed(v) ==
    CHOOSE s \in Max(Abs(v.x), Abs(v.z))..Min(MaxSpeed, Abs(v.x) + Abs(v.z)) :
        s * s = v.x * v.x + v.z * v.z

----------------------------------------------------------------------------
(* JavaScript values passed to accelerate: a boolean or a number (newtons) *)

Bool(b) == [t |-> "bool", v |-> IF b THEN 1 ELSE 0]

Num(n) == [t |-> "num", v |-> n]

\* if (accelerating): false, 0 (and NaN) are falsy, everything else truthy.
Truthy(a) == a.v # 0

----------------------------------------------------------------------------
(* physics.js: the two builds of PhysicsWorld and Vehicle *)

Builds == {"ramped", "direct"}

maxForce(b) == IF b = "ramped" THEN 6000 ELSE 500

maxSteerVal(b) == IF b = "ramped" THEN 7000 ELSE 3000

maxBrakeForce(b) == IF b = "ramped" THEN 6000 ELSE 15000

chassisMass(b) == IF b = "ramped" THEN 1200 ELSE 800

suspensionRestLength(b) == IF b = "ramped" THEN 4 ELSE 3

maxSubSteps(b) == IF b = "ramped" THEN 3 ELSE 4

fixedTimeStep == 10

maxDelta == 20

throttleIncreaseRate == 500

throttleDecreaseRate == 300

\* accelerate's "const dt = 1 / 20", as the divisor of a second.
accelerateDtDivisor == 20

\* The throttle value 1.
ThrottleOne == 10 * 100

Wheels == 0..3

WheelInit(b) ==
    [engineForce |-> 0, brake |-> 0, steering |-> 0,
     suspensionLength |-> suspensionRestLength(b)]

\* new Vehicle(physicsWorld, position): the chassis at rest at position, identity
\* orientation, initWheels() zeroes every wheel command; the chassis and wheel
\* bodies are added to the world (inWorld).
NewVehicle(b, position) ==
    [build |-> b,
     currentThrottle |-> 0,
     chassisBody |-> [position |-> position, quaternion |-> Quat(0, 0, 0, 5),
                      velocity |-> Zero3, angularVelocity |-> Zero3,
                      force |-> Zero3, torque |-> Zero3],
     wheelInfos |-> [i \in Wheels |-> WheelInit(b)],
     previousSteerValue |-> <<>>,
     isResetting |-> FALSE,
     inWorld |-> TRUE]

\* Vehicle.applyEngineForce(force, wheelIndex)
applyEngineForce(v, force, i) ==
    [v EXCEPT !.wheelInfos[i].engineForce = force]

\* Vehicle.setBrake(brakeForce, wheelIndex): -1 addresses all four wheels.
setBrake(v, brakeForce, wheelIndex) ==
    IF wheelIndex = -1
    THEN [v EXCEPT !.wheelInfos =
              [i \in Wheels |-> [v.wheelInfos[i] EXCEPT !.brake = brakeForce]]]
    ELSE [v EXCEPT !.wheelInfos[wheelIndex].brake = brakeForce]

\* Vehicle.setSteeringValue(steerValue, wheelIndex)
setSteeringValue(v, steerValue, i) ==
    [v EXCEPT !.wheelInfos[i].steering = steerValue]

\* A throttle that decays whatever the argument.
decayThrottle(throttle, accelerating) ==
    Max(0, throttle - throttleDecreaseRate \div accelerateDtDivisor)

\* A throttle ramp without Math.min / Math.max.
unclampedThrottle(throttle, accelerating) ==
    IF Truthy(accelerating)
    THEN throttle + throttleIncreaseRate \div accelerateDtDivisor
    ELSE throttle - throttleDecreaseRate \div accelerateDtDivisor

\* accelerate (ramped build): the throttle after one call.
rampThrottle(throttle, accelerating) ==
    IF Truthy(accelerating)
    THEN Min(ThrottleOne, throttle + throttleIncreaseRate \div accelerateDtDivisor)
    ELSE Max(0, throttle - throttleDecreaseRate \div accelerateDtDivisor)

\* accelerate (ramped build): slopeFactor = chassisUp . upAxis, times 25.
slopeFactor(q) == Dot(UpOf(q), Vec3(0, 1, 0))

\* accelerate (ramped build): slopeDirection = horizontalForward . (0, |chassisUp.y|, 0),
\* times 25 * 25 and the positive norm of the horizontal forward vector.
slopeDirection(q) ==
    LET chassisUp == UpOf(q)
        chassisForward == ForwardOf(q)
        horizontalForward == Vec3(chassisForward.x, 0, chassisForward.z)
    IN  Dot(horizontalForward,
            Vec3(0, IF chassisUp.y < 0 THEN -chassisUp.y ELSE chassisUp.y, 0))

\* accelerate (ramped build): engineForce = currentThrottle * maxForce * slopeAdjustment
\* with slopeAdjustment = 1 + (1 - slopeFactor) * 2 * slopeDirection, in 1/50 N.
\* slopeDirection carries the norm of the horizontal forward vector; it enters
\* only through a product with the y component 0, so the norm does not matter.
rampedEngineForce(throttle, q) ==
    LET base == (throttle * maxForce("ramped") * 50) \div ThrottleOne
        sd == slopeDirection(q)
    IN  IF sd = 0 THEN base
        ELSE base + RoundDiv(base * (QN2 - slopeFactor(q)) * 2 * sd, QN2 * QN2 * QN2)

\* accelerate: the four applyEngineForce calls, front wheels 0 and 1, rear 2 and 3.
distributeEngineForce(v, front, rear) ==
    [v EXCEPT !.wheelInfos = [i \in Wheels |->
        [v.wheelInfos[i] EXCEPT !.engineForce = IF i < 2 THEN front ELSE rear]]]

\* accelerate (ramped build) once the throttle is updated: 40% of the engine
\* force to each front wheel, 20% to each rear wheel.
rampedDistribution(v, engineForce) ==
    distributeEngineForce(v, (engineForce * 4) \div 10, (engineForce * 2) \div 10)

\* accelerate (direct build): forwardForce = -force, rear wheels get 1.5 times
\* forwardForce, front wheels half of it.
directDistribution(v, forwardForce) ==
    distributeEngineForce(v, forwardForce \div 2, (forwardForce * 3) \div 2)

\* accelerate (ramped build) with the new throttle t
rampedAccelerate(v, t) ==
    rampedDistribution([v EXCEPT !.currentThrottle = t],
                       rampedEngineForce(t, v.chassisBody.quaternion))

\* Vehicle.accelerate
accelerate(v, arg) ==
    IF v.build = "ramped"
    THEN rampedAccelerate(v, rampThrottle(v.currentThrottle, arg))
    ELSE directDistribution(v, -arg.v * 50)

\* Vehicle.brake(force), force in newtons: the ramped build scales it by
\* (2 - slopeFactor), the direct build applies it as given.
brake(v, force) ==
    IF v.build = "ramped"
    THEN setBrake(v, force * 2 * (2 * QN2 - slopeFactor(v.chassisBody.quaternion)), -1)
    ELSE setBrake(v, force * 50, -1)

\* A steer that applies the commanded value as given.
unclampedSteer(b, steerValue) == steerValue

\* Vehicle.steer: the clamp to [-maxSteerVal, maxSteerVal].
clampedSteer(b, steerValue) ==
    Max(-maxSteerVal(b), Min(maxSteerVal(b), steerValue))

\* A steer that turns all four wheels.
steerAllWheels(v, steerValue) ==
    [v EXCEPT !.wheelInfos = [i \in Wheels |->
        [v.wheelInfos[i] EXCEPT !.steering = clampedSteer(v.build, steerValue)]]]

\* Vehicle.steer(steerValue)
steer(v, steerValue) ==
    LET c == clampedSteer(v.build, steerValue)
    IN  setSteeringValue(setSteeringValue(v, c, 0), c, 1)

\* A reset that poses the chassis and leaves its motion alone.
poseChassis(body, position, quaternion) ==
    [body EXCEPT !.position = position, !.quaternion = quaternion]

\* Vehicle.reset: the chassis part (velocities, accumulators, pose).
resetChassis(body, position, quaternion) ==
    [body EXCEPT !.velocity = Zero3, !.angularVelocity = Zero3,
                 !.force = Zero3, !.torque = Zero3,
                 !.position = position, !.quaternion = quaternion]

\* Vehicle.reset: the wheel loop followed by setBrake(maxBrakeForce * 0.1).
resetWheels(v) ==
    LET zeroed == [v EXCEPT !.wheelInfos =
                      [i \in Wheels |->
                          [v.wheelInfos[i] EXCEPT
                              !.engineForce = 0, !.brake = 0,
                              !.steering = IF i < 2 THEN 0 ELSE @]]]
    IN  setBrake(zeroed, (maxBrakeForce(v.build) * 50) \div 10, -1)

\* Vehicle.reset (ramped build), the tail: throttle 0, force.y = -mass * 9.81 * 1.1,
\* every suspension at its rest length.
resetTail(v) ==
    [v EXCEPT
        !.currentThrottle = 0,
        !.chassisBody.force.y = -((chassisMass(v.build) * 981 * 11) \div 100),
        !.wheelInfos = [i \in Wheels |->
            [v.wheelInfos[i] EXCEPT
                !.suspensionLength = suspensionRestLength(v.build)]]]

\* A reset that also forgets the steering value the game blends from.
resetSteerMemory(v, position, quaternion) ==
    [(IF v.build = "ramped"
      THEN resetTail(resetWheels([v EXCEPT !.chassisBody =
                          resetChassis(v.chassisBody, position, quaternion)]))
      ELSE resetWheels([v EXCEPT !.chassisBody =
                          resetChassis(v.chassisBody, position, quaternion)]))
     EXCEPT !.previousSteerValue = <<>>]

\* Vehicle.reset(position, quaternion)
reset(v, position, quaternion) ==
    IF v.build = "ramped"
    THEN resetTail(resetWheels([v EXCEPT !.chassisBody =
                        resetChassis(v.chassisBody, position, quaternion)]))
    ELSE resetWheels([v EXCEPT !.chassisBody =
                        resetChassis(v.chassisBody, position, quaternion)])

\* An update that hands the wall-clock delta to the solver as given.
rawDelta(deltaTime) == deltaTime

\* PhysicsWorld.update: clampedDelta = Math.min(deltaTime, maxDelta)
clampedDelta(deltaTime) == Min(deltaTime, maxDelta)

\* world.step(fixedTimeStep, clampedDelta, maxSubSteps): the sub-step counts the
\* solver may take.  It runs fixed steps while the accumulator holds a whole step
\* and the cap is not reached, and may stop after any step when a step took
\* longer than real time.
SubStepChoices(accumulator, timeSinceLastCalled, cap) ==
    LET full == Min((accumulator + timeSinceLastCalled) \div fixedTimeStep, cap)
    IN  IF full = 0 THEN {0} ELSE 1..full

\* world.step: the accumulator left over, excess removed.
accumulatorAfter(accumulator, timeSinceLastCalled, n) ==
    (accumulator + timeSinceLastCalled - n * fixedTimeStep) % fixedTimeStep

\* What n > 0 solver steps do to the vehicle: the chassis gets the kinematic
\* state the solver computes, its accumulators are cleared, every suspension is
\* re-derived from its raycast.
stepVehicle(v, n, outcome) ==
    IF n = 0 THEN v
    ELSE [v EXCEPT
             !.chassisBody = [position |-> outcome.position,
                              quaternion |-> outcome.quaternion,
                              velocity |-> outcome.velocity,
                              angularVelocity |-> outcome.angularVelocity,
                              force |-> Zero3, torque |-> Zero3],
             !.wheelInfos = [i \in Wheels |->
                 [v.wheelInfos[i] EXCEPT !.suspensionLength = outcome.suspension]]]

\* PhysicsWorld.update(deltaTime) on w = [physicsWorld, vehicle], the solver
\* taking n steps and leaving the chassis in outcome.
update(w, deltaTime, n, outcome) ==
    [physicsWorld |-> [w.physicsWorld EXCEPT !.accumulator =
                          accumulatorAfter(@, clampedDelta(deltaTime), n)],
     vehicle |-> stepVehicle(w.vehicle, n, outcome)]

----------------------------------------------------------------------------
(* Values the environment supplies *)

QIdentity == Quat(0, 0, 0, 5)

\* chassis up . world up = -0.6
QFlipped == Quat(4, 1, 2, 2)

\* pitched about the x axis, chassis up . world up = 0.28
QPitched == Quat(3, 0, 0, 4)

\* yawed about the y axis, upright
QYawed == Quat(0, 3, 0, 4)

Outcome(p, q, vel, w, s) ==
    [position |-> p, quaternion |-> q, velocity |-> vel,
     angularVelocity |-> w, suspension |-> s]

\* Kinematic states the solver may leave the chassis in.
OutAtRest    == Outcome(Vec3(0, 12, 100), QIdentity, Zero3, Zero3, 4)
OutCruising  == Outcome(Vec3(10, 12, 50), QIdentity, Vec3(0, 0, -300), Zero3, 3)
OutFlipped   == Outcome(Vec3(0, 12, 100), QFlipped, Vec3(0, 0, -30), Vec3(0, 0, 3), 5)
OutFallen    == Outcome(Vec3(0, -60, 100), QPitched, Vec3(0, -500, 0), Zero3, 11)

\* upright and in bounds, spinning at 30 rad/s
OutSpinning  == Outcome(Vec3(0, 12, 100), QIdentity, Vec3(6, 0, 8), Vec3(0, 30, 0), 4)
\* upright, 51 m off the centre line
OutOffTrack  == Outcome(Vec3(510, 12, 0), QIdentity, Vec3(400, 0, -300), Zero3, 11)

\* upright and at rest, the position not a number
OutNonFinite == Outcome(Vec3(NaN, NaN, NaN), QIdentity, Zero3, Zero3, 4)

StartPosition == Vec3(0, 15, 220)

\* Trace of the last operation.
Trace(op) ==
    [op |-> op, truthy |-> FALSE, position |-> Zero3, quaternion |-> QIdentity,
     deltaTime |-> 0, clamped |-> 0, substeps |-> 0]

KeyCodes == {"ArrowUp", "ArrowDown", "ArrowLeft", "ArrowRight",
             "KeyW", "KeyS", "KeyA", "KeyD", "KeyR", "Space"}

\* const keys = { ArrowUp: false, ... }
NoKeys == [c \in KeyCodes |-> FALSE]

\* Trace of an animate tick: the world step and the calls updateVehicle made on
\* the vehicle, in order (log); the number of resetCar calls; the vehicle and timers just before
\* the last resetCar call (atCall, empty when there was none); the speed, the
\* steering target and the steering value blended from, when the input mapping
\* ran (mapped); the steering target of the input-mapping frame before; after
\* the first timer of a reset, the chassis as the callback placed it, before
\* its stabilizing steps (placed, empty otherwise); the chassis as the world
\* step of the tick left it (stepped, empty outside a tick).
NoFrame ==
    [ran |-> FALSE, log |-> <<>>, resetCalls |-> 0, atCall |-> <<>>,
     mapped |-> FALSE, currentSpeed |-> 0, targetSteer |-> 0, blendFrom |-> 0,
     previousTarget |-> 0, placed |-> <<>>, stepped |-> <<>>]

----------------------------------------------------------------------------
(* Operations of physics.js, called directly *)

GameIdle == UNCHANGED <<keys, gameStarted, timers, startTimers, animationLoops, frames, frame>>

\* vehicle.accelerate(arg)
Accelerate(arg) ==
    /\ vehicle' = accelerate(vehicle, arg)
    /\ last' = [Trace("accelerate") EXCEPT !.truthy = Truthy(arg)]
    /\ UNCHANGED physicsWorld
    /\ GameIdle

\* vehicle.brake(force)
Brake(force) ==
    /\ vehicle' = brake(vehicle, force)
    /\ last' = Trace("brake")
    /\ UNCHANGED physicsWorld
    /\ GameIdle

\* vehicle.steer(steerValue)
Steer(steerValue) ==
    /\ vehicle' = steer(vehicle, steerValue)
    /\ last' = Trace("steer")
    /\ UNCHANGED physicsWorld
    /\ GameIdle

\* vehicle.reset(position, quaternion)
Reset(position, quaternion) ==
    /\ vehicle' = reset(vehicle, position, quaternion)
    /\ last' = [Trace("reset") EXCEPT !.position = position, !.quaternion = quaternion]
    /\ UNCHANGED physicsWorld
    /\ GameIdle

\* physicsWorld.update(deltaTime)
Update(deltaTime, outcome) ==
    \E n \in SubStepChoices(physicsWorld.accumulator, clampedDelta(deltaTime),
                            maxSubSteps(vehicle.build)) :
        LET w == update([physicsWorld |-> physicsWorld, vehicle |-> vehicle],
                        deltaTime, n, outcome)
        IN  /\ physicsWorld' = w.physicsWorld
            /\ vehicle' = w.vehicle
            /\ last' = [Trace("update") EXCEPT !.deltaTime = deltaTime,
                            !.clamped = clampedDelta(deltaTime), !.substeps = n]
            /\ GameIdle

InitObjects ==
    /\ \E b \in Builds : vehicle = NewVehicle(b, StartPosition)
    /\ physicsWorld = [accumulator |-> 0, chassisBodies |-> 1]
    /\ keys = NoKeys
    /\ gameStarted = FALSE
    /\ timers = <<>>
    /\ startTimers = <<>>
    /\ animationLoops = 1
    /\ frames = 0
    /\ frame = NoFrame
    /\ last = Trace("new")

AccelerateArgs == {Bool(TRUE), Bool(FALSE), Num(0), Num(9000), Num(-6000)}

ResetPoses == {Vec3(0, 15, 220), Vec3(500, 45, 4500)}

ResetOrientations == {QIdentity, QYawed, QPitched}

\* The throttle ramp: accelerate and reset in any order.
NextThrottle ==
    \/ \E arg \in AccelerateArgs : Accelerate(arg)
    \/ \E q \in ResetOrientations : Reset(StartPosition, q)
    \/ Update(fixedTimeStep, OutFlipped)

SpecThrottle == InitObjects /\ [][NextThrottle]_vars

\* Bound: in SpecVehicle the ramped throttle is raised at most this many ticks.
MaxRampTicks == 2

SteerCommands == {-20000, -1000, 0, 7001}

BrakeForces == {0, 6000}

VehicleOutcomes == {OutCruising, OutFlipped, OutFallen}

NextVehicle ==
    \/ \E arg \in AccelerateArgs :
          /\ vehicle.currentThrottle <
                 MaxRampTicks * (throttleIncreaseRate \div accelerateDtDivisor)
          /\ Accelerate(arg)
    \/ \E force \in BrakeForces : Brake(force)
    \/ \E s \in SteerCommands : Steer(s)
    \/ \E p \in ResetPoses, q \in ResetOrientations : Reset(p, q)
    \/ \E o \in VehicleOutcomes : Update(fixedTimeStep, o)

SpecVehicle == InitObjects /\ [][NextVehicle]_vars

Deltas == {0, 4, 10, 16, 20, 21, 33, 600}

NextWorld ==
    \E d \in Deltas, o \in {OutAtRest, OutCruising} : Update(d, o)

SpecWorld == InitObjects /\ [][NextWorld]_vars

----------------------------------------------------------------------------
(* game.js: resetCar, updateVehicle, animate *)

\* tracks.straight.startPosition = (0, 0.5, 22)
startPosition == Vec3(0, 5, 220)

\* tracks.straight.startRotation
startRotation == 0

\* cannonQuaternion.setFromAxisAngle(new CANNON.Vec3(0, 1, 0), rotation)
setFromYaw(rotation) == IF rotation = 0 THEN QIdentity ELSE QYawed

\* The flags updateVehicle derives from the key state.
accelerateFlag(k) == k["ArrowUp"] \/ k["KeyW"]

brakeFlag(k) == k["ArrowDown"] \/ k["KeyS"]

leftFlag(k) == k["ArrowLeft"] \/ k["KeyA"]

rightFlag(k) == k["ArrowRight"] \/ k["KeyD"]

\* A frame logic that never sees the reset flag.
noFlag(k) == FALSE

resetFlag(k) == k["KeyR"]

emergencyBrakeFlag(k) == k["Space"]

\* A call on the vehicle made by game.js, logged: c = [vehicle, timers,
\* physicsWorld] and the fields of the tick's trace.
Call(c, name, v) == [c EXCEPT !.vehicle = v, !.log = Append(@, name)]

\* resetCar with its guard left out.
neverInProgress(v) == FALSE

\* resetCar: "if (vehicle.isResetting) return; // Prevent multiple resets"
resetInProgress(v) == v.isResetting

\* resetCar once the guard is passed: isResetting = true, accelerate(0),
\* brake(maxBrakeForce), the first setTimeout.
startReset(g, position, rotation) ==
    [g EXCEPT
        !.vehicle = brake(accelerate([g.vehicle EXCEPT !.isResetting = TRUE], Num(0)),
                          maxBrakeForce(g.vehicle.build)),
        !.timers = Append(g.timers,
                          [stage |-> 1, position |-> position, rotation |-> rotation])]

\* resetCar(position, rotation) up to its first setTimeout, on
\* g = [vehicle, timers, physicsWorld].
resetCar(g, position, rotation) ==
    IF resetInProgress(g.vehicle) THEN g
    ELSE startReset(g, position, rotation)

\* The trace of a resetCar call: logged, counted, the state before it (c) kept.
resetCalled(c, g) ==
    [c EXCEPT !.vehicle = g.vehicle, !.timers = g.timers,
              !.physicsWorld = g.physicsWorld,
              !.log = Append(@, "resetCar"),
              !.resetCalls = @ + 1,
              !.atCall = <<[vehicle |-> c.vehicle, timers |-> c.timers,
                            physicsWorld |-> c.physicsWorld]>>]

\* updateVehicle: resetCar(tracks[currentTrack].startPosition, startRotation)
CallResetCar(c) ==
    resetCalled(c, resetCar([vehicle |-> c.vehicle, timers |-> c.timers,
                             physicsWorld |-> c.physicsWorld],
                            startPosition, startRotation))

\* chassisBody.applyImpulse((0, 0, dz * maxForce * 0.1), centre of mass):
\* velocity.z changes by the impulse over the mass.
applyImpulse(v, sign) ==
    [v EXCEPT !.chassisBody.velocity.z =
        @ + sign * RoundDiv(maxForce(v.build) * 10, chassisMass(v.build))]

\* updateVehicle: forceMultiplier = max(0.5, min(2.0, 5.0 / currentSpeed)),
\* the force maxForce * forceMultiplier in newtons.
normalForce(b, currentSpeed) ==
    Max(maxForce(b) \div 2,
        Min(2 * maxForce(b), RoundDiv(maxForce(b) * 500, currentSpeed)))

\* Calls of updateVehicle on the vehicle, logged.
thenAccelerate(c, arg) == Call(c, "accelerate", accelerate(c.vehicle, arg))

thenBrake(c, force) == Call(c, "brake", brake(c.vehicle, force))

thenImpulse(c, sign) == Call(c, "applyImpulse", applyImpulse(c.vehicle, sign))

\* updateVehicle, coasting: the brake force in newtons, 0.01 * maxBrakeForce
\* above 0.5 m/s, 0.03 * maxBrakeForce above 0.1 m/s, 0 otherwise.
dragBrake(b, currentSpeed) ==
    IF currentSpeed > 50 THEN maxBrakeForce(b) \div 100
    ELSE IF currentSpeed > 10 THEN (maxBrakeForce(b) * 3) \div 100
    ELSE 0

\* An accelerate branch that leaves the brakes as they are.
accelerateBraked(c, currentSpeed) ==
    IF currentSpeed < 10
    THEN thenAccelerate(thenImpulse(c, -1),
                        Num((maxForce(c.vehicle.build) * 15) \div 10))
    ELSE thenAccelerate(c, Num(normalForce(c.vehicle.build, currentSpeed)))

\* updateVehicle, accelerate held: below 0.1 m/s a forward impulse and
\* accelerate(1.5 * maxForce), otherwise accelerate(maxForce * forceMultiplier);
\* then brake(0).
accelerateCommands(c, currentSpeed) ==
    IF currentSpeed < 10
    THEN thenBrake(thenAccelerate(thenImpulse(c, -1),
                       Num((maxForce(c.vehicle.build) * 15) \div 10)), 0)
    ELSE thenBrake(thenAccelerate(c,
                       Num(normalForce(c.vehicle.build, currentSpeed))), 0)

\* updateVehicle: the accelerate / brake / coast branches.
driveCommands(c, k, currentSpeed, velocity) ==
    IF accelerateFlag(k)
    THEN accelerateCommands(c, currentSpeed)
    ELSE IF brakeFlag(k)
    THEN IF currentSpeed < 20
         THEN IF Abs(velocity.z) < 10
              THEN thenBrake(thenImpulse(thenAccelerate(c,
                                 Num(-maxForce(c.vehicle.build))), 1), 0)
              ELSE thenBrake(thenAccelerate(c,
                                 Num(-maxForce(c.vehicle.build))), 0)
         ELSE IF velocity.z < 0
              THEN thenBrake(thenAccelerate(c, Num(0)),
                             (maxBrakeForce(c.vehicle.build) * 7) \div 10)
              ELSE thenBrake(thenAccelerate(c, Num(0)),
                             (maxBrakeForce(c.vehicle.build) * 5) \div 10)
    ELSE thenBrake(thenAccelerate(c, Num(0)),
                   dragBrake(c.vehicle.build, currentSpeed))

\* updateVehicle: maxSteerVal * steeringFactor with
\* steeringFactor = max(0.3, 1 - currentSpeed / maxSpeedForFullSteering).
steerAuthority(b, currentSpeed) ==
    Max((maxSteerVal(b) * 3) \div 10,
        RoundDiv(maxSteerVal(b) * (1500 - currentSpeed), 1500))

\* updateVehicle: targetSteer from the left / right flags.
targetSteerOf(b, k, currentSpeed) ==
    IF leftFlag(k) THEN steerAuthority(b, currentSpeed)
    ELSE IF rightFlag(k) THEN -steerAuthority(b, currentSpeed)
    ELSE 0

\* A blend factor of 1: the steering snaps to its target.
snapBlendFactor(currentSpeed) == 10

\* updateVehicle: steerBlendFactor = currentSpeed < 1 ? 0.5 : 0.1, in tenths.
steerBlendFactor(currentSpeed) == IF currentSpeed < 100 THEN 5 ELSE 1

\* updateVehicle: previousSteerValue * (1 - steerBlendFactor) + targetSteer * steerBlendFactor
blendSteer(previous, target, blend) ==
    RoundDiv(previous * (10 - blend) + target * blend, 10)

\* "if (!vehicle.previousSteerValue) vehicle.previousSteerValue = 0"
previousSteerOf(v) ==
    IF v.previousSteerValue = <<>> THEN 0 ELSE v.previousSteerValue[1]

\* updateVehicle: vehicle.steer(newSteerValue); previousSteerValue = newSteerValue
applySteer(c, currentSpeed, targetSteer, previous, newSteerValue) ==
    [Call(c, "steer", steer(c.vehicle, newSteerValue)) EXCEPT
        !.vehicle.previousSteerValue = <<newSteerValue>>,
        !.mapped = TRUE,
        !.currentSpeed = currentSpeed,
        !.targetSteer = targetSteer,
        !.blendFrom = previous]

\* updateVehicle: the blend of the previous steering value and the target.
smoothSteer(c, currentSpeed, targetSteer, previous) ==
    applySteer(c, currentSpeed, targetSteer, previous,
               blendSteer(previous, targetSteer, steerBlendFactor(currentSpeed)))

\* updateVehicle: the steering block.
steerCommands(c, k, currentSpeed) ==
    smoothSteer(IF (leftFlag(k) \/ rightFlag(k)) /\ currentSpeed < 50
                THEN thenBrake(c, 0) ELSE c,
                currentSpeed,
                targetSteerOf(c.vehicle.build, k, currentSpeed),
                previousSteerOf(c.vehicle))

\* updateVehicle: the emergency brake block.
emergencyCommands(c, k) ==
    IF emergencyBrakeFlag(k)
    THEN thenAccelerate(thenBrake(c, maxBrakeForce(c.vehicle.build)), Num(0))
    ELSE c

\* A flip test that only an exactly inverted chassis could pass.
isInverted(q) == UpOf(q).y < -QN2

\* updateVehicle: isFlipped = carUp.dot(upVec) < -0.5
isFlipped(q) == 2 * UpOf(q).y < -QN2

\* updateVehicle: the condition of the recovery check.
needsRecovery(body) ==
    \/ Less(body.position.y, -50)
    \/ Less(500, MathAbs(body.position.x))
    \/ Less(500, MathAbs(body.position.z))
    \/ isFlipped(body.quaternion)

\* updateVehicle: "if (position.y < 0.5) position.y = 0.7"
keepAboveGround(c) ==
    IF Less(c.vehicle.chassisBody.position.y, 5)
    THEN Call(c, "position.y", [c.vehicle EXCEPT !.chassisBody.position.y = 7])
    ELSE c

\* updateVehicle: vehicle.update(), then the recovery check.
readBackAndRecover(c) ==
    IF needsRecovery(c.vehicle.chassisBody)
    THEN CallResetCar(Call(c, "update", c.vehicle))
    ELSE Call(c, "update", c.vehicle)

\* updateVehicle below the reset short-circuit.
mapInputs(c, k, currentSpeed, velocity) ==
    readBackAndRecover(
        emergencyCommands(
            steerCommands(driveCommands(c, k, currentSpeed, velocity),
                          k, currentSpeed),
            k))

\* updateVehicle() on c = [vehicle, timers, physicsWorld] with an empty trace, the key state k.
updateVehicle(c, k) ==
    IF resetFlag(k) THEN CallResetCar(c)
    ELSE mapInputs(keepAboveGround(c), k,
                   HorizontalSpeed(c.vehicle.chassisBody.velocity),
                   c.vehicle.chassisBody.velocity)

\* The trace a tick starts from.
FrameStart ==
    [NoFrame EXCEPT !.ran = TRUE,
                    !.previousTarget = frame.targetSteer]

\* Bound: animate ticks explored.
MaxFrames == 2

\* animate() with the game started, on g = [physicsWorld, vehicle, timers]:
\* physicsWorld.update(deltaTime), then updateVehicle().
animate(g, k, deltaTime, n, outcome) ==
    LET w == update([physicsWorld |-> g.physicsWorld, vehicle |-> g.vehicle],
                    deltaTime, n, outcome)
    IN  updateVehicle([FrameStart EXCEPT
                           !.log = <<"world.step">>,
                           !.stepped = <<w.vehicle.chassisBody>>]
                          @@ [vehicle |-> w.vehicle, timers |-> g.timers,
                              physicsWorld |-> w.physicsWorld],
                      k)

\* A requestAnimationFrame callback runs animate().
Animate(deltaTime, outcome) ==
    /\ gameStarted
    /\ frames < MaxFrames
    /\ \E n \in SubStepChoices(physicsWorld.accumulator, clampedDelta(deltaTime),
                               maxSubSteps(vehicle.build)) :
          LET c == animate([physicsWorld |-> physicsWorld, vehicle |-> vehicle,
                            timers |-> timers],
                           keys, deltaTime, n, outcome)
          IN  /\ physicsWorld' = c.physicsWorld
              /\ vehicle' = c.vehicle
              /\ timers' = c.timers
              /\ frame' = [f \in DOMAIN NoFrame |-> c[f]]
              /\ last' = Trace("animate")
    /\ frames' = frames + 1
    /\ UNCHANGED <<keys, gameStarted, startTimers, animationLoops>>

\* The trace once the tick is over: only the last steering target is kept.
FrameOver == [NoFrame EXCEPT !.targetSteer = frame.targetSteer]

\* Bound: keys the player holds down at once.
MaxKeysHeld == 2

\* The key codes currently held.
Held == {c \in KeyCodes : keys[c]}

\* keydown listener: "if (keys.hasOwnProperty(e.code)) keys[e.code] = true"
KeyDown(code) ==
    /\ frames < MaxFrames
    /\ Cardinality(Held \cup {code}) <= MaxKeysHeld
    /\ keys' = IF code \in DOMAIN keys THEN [keys EXCEPT ![code] = TRUE] ELSE keys
    /\ frame' = FrameOver
    /\ last' = Trace("key")
    /\ UNCHANGED <<vehicle, physicsWorld, gameStarted, timers, startTimers, animationLoops,
                   frames>>

\* keyup listener
KeyUp(code) ==
    /\ frames < MaxFrames
    /\ keys' = IF code \in DOMAIN keys THEN [keys EXCEPT ![code] = FALSE] ELSE keys
    /\ frame' = FrameOver
    /\ last' = Trace("key")
    /\ UNCHANGED <<vehicle, physicsWorld, gameStarted, timers, startTimers, animationLoops,
                   frames>>

\* resetCar, first timeout: every wheel gets engine force 0 and brake 0.2 * maxBrakeForce.
holdWheels(v) ==
    [v EXCEPT !.wheelInfos = [i \in Wheels |->
        [v.wheelInfos[i] EXCEPT
            !.engineForce = 0,
            !.brake = (maxBrakeForce(v.build) * 50 * 2) \div 10]]]

\* resetCar, first timeout: chassis zeroed and posed one metre above the start
\* position, vehicle.reset(), the wheels held.
placeVehicle(v, cannonPosition, cannonQuaternion) ==
    holdWheels(reset([v EXCEPT !.chassisBody =
                         resetChassis(@, cannonPosition, cannonQuaternion)],
                     cannonPosition, cannonQuaternion))

\* resetCar, first timeout: the five stabilizing steps, the solver leaving the
\* chassis in settled.
stabilize(w, settled) ==
    update(update(update(update(update(w,
        fixedTimeStep, 1, settled), fixedTimeStep, 1, settled),
        fixedTimeStep, 1, settled), fixedTimeStep, 1, settled),
        fixedTimeStep, 1, settled)

\* resetCar, first timeout, from its leading physics step to the placement of
\* the vehicle, before the stabilizing steps.
resetPlaced(w, position, rotation, before) ==
    [update(w, fixedTimeStep, 1, before) EXCEPT
        !.vehicle = placeVehicle(@, [position EXCEPT !.y = @ + 10],
                                 setFromYaw(rotation))]

\* resetCar: the first setTimeout callback, on w = [physicsWorld, vehicle].
resetStage1(w, position, rotation, before, settled) ==
    stabilize(resetPlaced(w, position, rotation, before), settled)

\* Where the solver may leave the chassis after the stabilizing steps of a reset.
SettledOutcomes ==
    {Outcome(Vec3(0, 14, 220), QIdentity, Vec3(0, -50, 0), Zero3, 5)}

\* The first timer of resetCar fires.
ResetStage1 ==
    /\ timers # <<>>
    /\ Head(timers).stage = 1
    /\ \E before \in {OutCruising}, settled \in SettledOutcomes :
          LET w == resetStage1([physicsWorld |-> physicsWorld, vehicle |-> vehicle],
                               Head(timers).position, Head(timers).rotation,
                               before, settled)
          IN  /\ physicsWorld' = w.physicsWorld
              /\ vehicle' = w.vehicle
              /\ frame' = [FrameOver EXCEPT !.placed =
                     <<resetPlaced([physicsWorld |-> physicsWorld, vehicle |-> vehicle],
                                   Head(timers).position, Head(timers).rotation,
                                   before).vehicle.chassisBody>>]
    /\ timers' = Append(Tail(timers), [Head(timers) EXCEPT !.stage = 2])
    /\ last' = Trace("timer")
    /\ UNCHANGED <<keys, gameStarted, startTimers, animationLoops, frames>>

\* A second timeout that leaves the in-progress flag set.
holdStage2(v) == brake(v, maxBrakeForce(v.build) \div 10)

\* resetCar: the second setTimeout callback.
resetStage2(v) ==
    [brake(v, maxBrakeForce(v.build) \div 10) EXCEPT !.isResetting = FALSE]

\* The second timer of resetCar fires.
ResetStage2 ==
    /\ timers # <<>>
    /\ Head(timers).stage = 2
    /\ vehicle' = resetStage2(vehicle)
    /\ timers' = Tail(timers)
    /\ frame' = FrameOver
    /\ last' = Trace("timer")
    /\ UNCHANGED <<keys, physicsWorld, gameStarted, startTimers, animationLoops, frames>>

\* startGame's delayed callback: the vehicle is created at the start position,
\* ten settling steps run, a light brake is applied, the game is started.
startedVehicle(b, outcome) ==
    brake(stepVehicle(NewVehicle(b, Vec3(startPosition.x, 15, startPosition.z)),
                      1, outcome),
          maxBrakeForce(b) \div 10)

Init ==
    /\ \E b \in Builds : vehicle = startedVehicle(b, OutAtRest)
    /\ physicsWorld = [accumulator |-> 0, chassisBodies |-> 1]
    /\ keys = NoKeys
    /\ gameStarted = TRUE
    /\ timers = <<>>
    /\ startTimers = <<>>
    /\ animationLoops = 1
    /\ frames = 0
    /\ frame = NoFrame
    /\ last = Trace("startGame")

\* Key codes the player presses: one per flag, and one the game does not know.
PressedCodes == {"ArrowUp", "KeyS", "ArrowLeft", "KeyD", "KeyR", "Space", "KeyX"}

FrameDeltas == {fixedTimeStep}

FrameOutcomes == {OutAtRest, OutCruising, OutFlipped}

Next ==
    \/ \E d \in FrameDeltas, o \in FrameOutcomes : Animate(d, o)
    \/ \E code \in PressedCodes : KeyDown(code)
    \/ \E code \in PressedCodes : KeyUp(code)
    \/ ResetStage1
    \/ ResetStage2

Spec == Init /\ [][Next]_vars

\* Resets: the keys and chassis states that request one; a pending timer
\* eventually fires (setTimeout callbacks are always run).
ResetCodes == {"KeyR", "ArrowUp"}

ResetOutcomes == {OutAtRest, OutFlipped}

NextReset ==
    \/ \E o \in ResetOutcomes : Animate(fixedTimeStep, o)
    \/ \E code \in ResetCodes : KeyDown(code)
    \/ \E code \in ResetCodes : KeyUp(code)
    \/ ResetStage1
    \/ ResetStage2

\* What a firing timer does to the timer queue: the first timeout schedules the
\* second, the second leaves the queue empty.
TimerFires ==
    /\ timers # <<>>
    /\ timers' = IF Head(timers).stage = 1
                 THEN Append(Tail(timers), [Head(timers) EXCEPT !.stage = 2])
                 ELSE Tail(timers)

SpecReset ==
    /\ Init
    /\ [][NextReset]_vars
    /\ WF_timers(TimerFires)

\* Bound: startGame callbacks pending at once.
MaxStarting == 2

\* startGame: "bodies.forEach(body => physicsWorld.world.removeBody(body))", as
\* the vehicle created in that world sees it.
removeBodies(v) == [v EXCEPT !.inWorld = FALSE]

\* startGame(trackKey): every body is removed from the current world, a new
\* PhysicsWorld replaces it, the vehicle is created 500 ms later.  gameStarted
\* and the vehicle are left as they are.
StartGame ==
    /\ Len(startTimers) < MaxStarting
    /\ physicsWorld' = [accumulator |-> 0, chassisBodies |-> 0]
    /\ startTimers' = Append(startTimers,
                             [position |-> Vec3(startPosition.x, 15, startPosition.z)])
    /\ frame' = FrameOver
    /\ last' = Trace("startGame")
    /\ vehicle' = removeBodies(vehicle)
    /\ UNCHANGED <<keys, gameStarted, timers, animationLoops, frames>>

\* resetGame(): gameStarted = false; createMenu().
ResetGame ==
    /\ gameStarted' = FALSE
    /\ frame' = FrameOver
    /\ last' = Trace("resetGame")
    /\ UNCHANGED <<vehicle, physicsWorld, keys, timers, startTimers, animationLoops, frames>>

\* new Vehicle(physicsWorld, startPos) adds its chassis body to the world the
\* global physicsWorld holds when the constructor runs.
addToWorld(world) == [world EXCEPT !.chassisBodies = @ + 1]

\* startGame's delayed callback fires: the vehicle is created in the current
\* world and settled, the game is started.
CreateVehicle ==
    /\ startTimers # <<>>
    /\ \E outcome \in SettledOutcomes :
          vehicle' = brake(stepVehicle(NewVehicle(vehicle.build, Head(startTimers).position),
                                       1, outcome),
                           maxBrakeForce(vehicle.build) \div 10)
    /\ physicsWorld' = addToWorld(physicsWorld)
    /\ gameStarted' = TRUE
    /\ startTimers' = Tail(startTimers)
    /\ frame' = FrameOver
    /\ last' = Trace("createVehicle")
    /\ UNCHANGED <<keys, timers, animationLoops, frames>>

\* Game lifecycle: games are started and left while the car is driven and reset.
LifecycleCodes == {"KeyR"}

NextLifecycle ==
    \/ StartGame
    \/ ResetGame
    \/ CreateVehicle
    \/ Animate(fixedTimeStep, OutAtRest)
    \/ \E code \in LifecycleCodes : KeyDown(code)
    \/ \E code \in LifecycleCodes : KeyUp(code)
    \/ ResetStage1
    \/ ResetStage2

SpecLifecycle == Init /\ [][NextLifecycle]_vars

\* The game module of src/unnamed/part_004: its startGame callback ends with a
\* call of animate(), next to the one the module makes when it is loaded.

\* "let vehicle = null" for the physics build b the page loads.
NoVehicle(b) == [build |-> b, inWorld |-> FALSE]

\* The module is loaded: no vehicle, no game, the menu shown, animate() called once.
InitLoaded ==
    /\ \E b \in Builds : vehicle = NoVehicle(b)
    /\ physicsWorld = [accumulator |-> 0, chassisBodies |-> 0]
    /\ keys = NoKeys
    /\ gameStarted = FALSE
    /\ timers = <<>>
    /\ startTimers = <<>>
    /\ animationLoops = 1
    /\ frames = 0
    /\ frame = NoFrame
    /\ last = Trace("load")

\* Bound: animation chains started.
MaxLoops == 3

\* startGame's delayed callback (part_004): the vehicle is created in the
\* current world, the game is started, and animate() is called: it registers a
\* further requestAnimationFrame chain and runs one tick at once.
CreateVehicleAndAnimate(deltaTime, outcome) ==
    /\ startTimers # <<>>
    /\ animationLoops < MaxLoops
    /\ frames < MaxFrames
    /\ \E n \in SubStepChoices(0, clampedDelta(deltaTime), maxSubSteps(vehicle.build)) :
          LET c == animate([physicsWorld |-> addToWorld(physicsWorld),
                            vehicle |-> NewVehicle(vehicle.build,
                                                   Head(startTimers).position),
                            timers |-> timers],
                           keys, deltaTime, n, outcome)
          IN  /\ physicsWorld' = c.physicsWorld
              /\ vehicle' = c.vehicle
              /\ timers' = c.timers
              /\ frame' = [f \in DOMAIN NoFrame |-> c[f]]
              /\ last' = Trace("createVehicle")
    /\ gameStarted' = TRUE
    /\ startTimers' = Tail(startTimers)
    /\ animationLoops' = animationLoops + 1
    /\ frames' = frames + 1
    /\ UNCHANGED keys

NextLoops ==
    \/ StartGame
    \/ ResetGame
    \/ CreateVehicleAndAnimate(fixedTimeStep, OutAtRest)
    \/ \E o \in ResetOutcomes : Animate(fixedTimeStep, o)
    \/ \E code \in LifecycleCodes : KeyDown(code)
    \/ \E code \in LifecycleCodes : KeyUp(code)
    \/ ResetStage1
    \/ ResetStage2

SpecLoops == InitLoaded /\ [][NextLoops]_vars

\* Recovery: the chassis spins, falls or leaves the track.
RecoveryCodes == {"KeyR", "ArrowLeft"}

RecoveryOutcomes == {OutAtRest, OutSpinning, OutFallen, OutOffTrack}

NextRecovery ==
    \/ \E o \in RecoveryOutcomes : Animate(fixedTimeStep, o)
    \/ \E code \in RecoveryCodes : KeyDown(code)
    \/ \E code \in RecoveryCodes : KeyUp(code)
    \/ ResetStage1
    \/ ResetStage2

SpecRecovery == Init /\ [][NextRecovery]_vars

\* Non-finite positions: the solver leaves the chassis position not a number.
NonFiniteOutcomes == {OutAtRest, OutNonFinite}

NextNonFinite ==
    \/ \E o \in NonFiniteOutcomes : Animate(fixedTimeStep, o)
    \/ \E code \in RecoveryCodes : KeyDown(code)
    \/ \E code \in RecoveryCodes : KeyUp(code)
    \/ ResetStage1
    \/ ResetStage2

SpecNonFinite == Init /\ [][NextNonFinite]_vars

----------------------------------------------------------------------------
(* Properties *)

\* The snapshot taken just before the resetCar call of the tick.
AtCall == frame.atCall[1]

\* C1: a resetCar call made while vehicle.isResetting is true (from the R key or
\* from the recovery check) changes nothing: the vehicle (chassis, wheels,
\* throttle), the physics world and the timers are as they were just before
\* the call, and never more than one staged reset sequence is pending.
C1_ResetIgnoredWhileResetting ==
    /\ (frame.resetCalls > 0 /\ AtCall.vehicle.isResetting)
          => /\ vehicle = AtCall.vehicle
             /\ physicsWorld = AtCall.physicsWorld
             /\ timers = AtCall.timers
    /\ Len(timers) <= 1

\* A tick whose recovery check called resetCar while a reset was in progress.
C1_Witness ==
    /\ frame.resetCalls > 0
    /\ AtCall.vehicle.isResetting
    /\ frame.mapped
    /\ timers # <<>>

\* C2: immediately after Vehicle.reset(pos, orient) the chassis has linear
\* velocity 0, angular velocity 0, position pos and orientation orient.
C2_ResetPosesChassisAtRest ==
    last.op = "reset" =>
        /\ vehicle.chassisBody.velocity = Zero3
        /\ vehicle.chassisBody.angularVelocity = Zero3
        /\ vehicle.chassisBody.position = last.position
        /\ vehicle.chassisBody.quaternion = last.quaternion

\* A reset to a pitched pose away from the origin.
C2_Witness ==
    /\ last.op = "reset"
    /\ last.quaternion = QPitched
    /\ last.position = Vec3(500, 45, 4500)
    /\ vehicle.chassisBody.quaternion = QPitched

\* C3: in the ramped build a truthy accelerate call never lowers currentThrottle
\* and raises it unless it is already 1; a falsy call never raises it and
\* lowers it unless it is already 0.
C3_ThrottleRampMonotonic ==
    [][(last'.op = "accelerate" /\ vehicle.build = "ramped") =>
          IF last'.truthy
          THEN /\ vehicle'.currentThrottle >= vehicle.currentThrottle
               /\ vehicle'.currentThrottle <= ThrottleOne
               /\ (vehicle'.currentThrottle = vehicle.currentThrottle
                      => vehicle.currentThrottle = ThrottleOne)
          ELSE /\ vehicle'.currentThrottle <= vehicle.currentThrottle
               /\ vehicle'.currentThrottle >= 0
               /\ (vehicle'.currentThrottle = vehicle.currentThrottle
                      => vehicle.currentThrottle = 0)]_vars

\* The throttle saturated at 1 by a truthy accelerate call.
C3_Witness ==
    /\ vehicle.build = "ramped"
    /\ last.op = "accelerate"
    /\ last.truthy
    /\ vehicle.currentThrottle = ThrottleOne

\* C4: currentThrottle is within [0, 1] in every state, and is 0 right after
\* construction and right after Vehicle.reset.
C4_ThrottleWithinUnitInterval ==
    /\ vehicle.currentThrottle >= 0
    /\ vehicle.currentThrottle <= ThrottleOne
    /\ (last.op \in {"new", "reset"} => vehicle.currentThrottle = 0)

\* The ramped vehicle right after a reset: throttle 0, the light brake applied.
C4_Witness ==
    /\ vehicle.build = "ramped"
    /\ last.op = "reset"
    /\ vehicle.currentThrottle = 0
    /\ \A i \in Wheels : vehicle.wheelInfos[i].brake > 0

\* C5: every steering value on a wheel has magnitude at most maxSteerVal.
C5_SteeringBounded ==
    \A i \in Wheels :
        /\ vehicle.wheelInfos[i].steering <= maxSteerVal(vehicle.build)
        /\ vehicle.wheelInfos[i].steering >= -maxSteerVal(vehicle.build)

\* A steer command beyond the range, applied at the limit.
C5_Witness ==
    /\ last.op = "steer"
    /\ vehicle.wheelInfos[0].steering = -maxSteerVal(vehicle.build)
    /\ vehicle.wheelInfos[1].steering = -maxSteerVal(vehicle.build)

\* C6: in a tick that maps the inputs the applied steering is
\* previous * (1 - b) + target * b, b = 0.5 below 1 m/s and 0.1 otherwise (to the
\* rounding of the steering unit); when the target was +maxSteerVal in the tick
\* before and is -maxSteerVal now, the applied steering lies strictly between
\* the previous value and the new target and is not at either limit.
C6_SteeringBlended ==
    frame.mapped =>
        LET b == IF frame.currentSpeed < 100 THEN 5 ELSE 1
            applied == vehicle.wheelInfos[0].steering
            limit == maxSteerVal(vehicle.build)
        IN  /\ vehicle.wheelInfos[1].steering = applied
            /\ Abs(10 * applied
                   - (frame.blendFrom * (10 - b) + frame.targetSteer * b)) <= 5
            /\ (frame.previousTarget = limit /\ frame.targetSteer = -limit)
                  => /\ applied < frame.blendFrom
                     /\ applied > -limit
                     /\ applied < limit

\* The steering target flipped from +maxSteerVal to -maxSteerVal between two ticks.
C6_Witness ==
    /\ frame.mapped
    /\ frame.previousTarget = maxSteerVal(vehicle.build)
    /\ frame.targetSteer = -maxSteerVal(vehicle.build)
    /\ frame.blendFrom > 0

\* C7: PhysicsWorld.update hands min(delta, 1/30 s) to the solver, and the
\* solver takes at most maxSubSteps fixed steps in the call.
C7_UpdateClampsDelta ==
    last.op = "update" =>
        /\ last.clamped = IF last.deltaTime * 30 <= fixedTimeStep * 60
                          THEN last.deltaTime
                          ELSE (fixedTimeStep * 60) \div 30
        /\ last.substeps * fixedTimeStep
               <= maxSubSteps(vehicle.build) * fixedTimeStep

\* An update after a one second stall.
C7_Witness ==
    /\ last.op = "update"
    /\ last.deltaTime = 60 * fixedTimeStep
    /\ last.substeps = 2

\* C8: in every tick in which the chassis is flipped (chassis up . world up
\* < -0.5) and within the bounds, updateVehicle calls resetCar exactly once.
C8_FlippedResetsOncePerFrame ==
    (/\ frame.ran
     /\ 2 * UpOf(vehicle.chassisBody.quaternion).y < -QN2
     /\ vehicle.chassisBody.position.y >= -50
     /\ Abs(vehicle.chassisBody.position.x) <= 500
     /\ Abs(vehicle.chassisBody.position.z) <= 500)
        => frame.resetCalls = 1

\* A later flipped tick: the recovery check calls resetCar again while the
\* reset it requested before is still in progress.
C8_Witness ==
    /\ frame.ran
    /\ ~keys["KeyR"]
    /\ vehicle.chassisBody.quaternion = QFlipped
    /\ frame.resetCalls = 1
    /\ AtCall.vehicle.isResetting

\* C9: in a tick with the reset flag set updateVehicle only calls resetCar: no
\* accelerate, brake or steer mapping, no wheel read-back, no recovery check;
\* the chassis and the steering state are as the reset request found them.
C9_ResetShortCircuits ==
    (frame.ran /\ keys["KeyR"]) =>
        /\ frame.log = <<"world.step", "resetCar">>
        /\ ~frame.mapped
        /\ vehicle.chassisBody = AtCall.vehicle.chassisBody
        /\ vehicle.previousSteerValue = AtCall.vehicle.previousSteerValue
        /\ \A i \in Wheels :
              vehicle.wheelInfos[i].steering = AtCall.vehicle.wheelInfos[i].steering

\* A reset tick with the accelerator held and a flipped chassis.
C9_Witness ==
    /\ frame.ran
    /\ keys["KeyR"]
    /\ keys["ArrowUp"]
    /\ vehicle.chassisBody.quaternion = QFlipped
    /\ vehicle.isResetting

\* C10: in a tick with the emergency brake set and reset not, at the end of
\* updateVehicle every wheel's engine force is 0 and every wheel's brake is the
\* maximum brake force, and the steering of the tick is still applied.
C10_EmergencyBrakeOverrides ==
    (frame.ran /\ keys["Space"] /\ ~keys["KeyR"]) =>
        /\ \A i \in Wheels :
              /\ vehicle.wheelInfos[i].engineForce = 0
              /\ vehicle.wheelInfos[i].brake = maxBrakeForce(vehicle.build) * 50
        /\ frame.mapped
        /\ vehicle.previousSteerValue = <<vehicle.wheelInfos[0].steering>>

\* The key state with the accelerate keys released.
brakeOnly(k) == [k EXCEPT !["ArrowUp"] = FALSE, !["KeyW"] = FALSE]

\* The vehicle a tick leaves when the solver leaves the chassis in outcome and
\* updateVehicle sees the key state k.
tickVehicle(k, outcome) ==
    updateVehicle(FrameStart @@
                      [vehicle |-> stepVehicle(vehicle, 1, outcome),
                       timers |-> timers,
                       physicsWorld |-> physicsWorld],
                  k).vehicle

\* C11: in a tick with the accelerate and the brake flag both set, every
\* wheel's engine force and brake are those a tick with only the brake flag set
\* would have commanded.
C11_BrakeTakesPriority ==
    [][(frame'.mapped /\ accelerateFlag(keys) /\ brakeFlag(keys)) =>
          \E o \in FrameOutcomes :
              /\ vehicle'.chassisBody.quaternion = o.quaternion
              /\ \A i \in Wheels :
                    /\ vehicle'.wheelInfos[i].engineForce
                           = tickVehicle(brakeOnly(keys), o).wheelInfos[i].engineForce
                    /\ vehicle'.wheelInfos[i].brake
                           = tickVehicle(brakeOnly(keys), o).wheelInfos[i].brake]_vars

\* Speeds from standstill to cruising, in 1/100 m/s.
CoastSpeeds == {0, 5, 10, 11, 30, 50, 51, 300}

\* C12: in a tick with no key held (and no recovery reset) on an upright
\* chassis, every wheel carries a nonzero drag brake, and no speed at or above
\* the tick's speed would have drawn a larger one.
C12_CoastingDragBrake ==
    (/\ frame.mapped
     /\ Held = {}
     /\ frame.resetCalls = 0
     /\ vehicle.chassisBody.quaternion = QIdentity)
        => \A i \in Wheels :
              /\ vehicle.wheelInfos[i].brake > 0
              /\ \A s \in CoastSpeeds :
                    s >= frame.currentSpeed
                        => dragBrake(vehicle.build, s) * 50
                               <= vehicle.wheelInfos[i].brake

\* The calls of updateVehicle that command the engine, the brakes or the steering.
ControlCalls == {"accelerate", "brake", "steer", "applyImpulse"}

\* The keys that drive or steer.
ControlCodes == KeyCodes \ {"KeyR"}

\* C13: in a tick that starts while a reset is in progress, with a driving or
\* steering key held, updateVehicle applies no accelerate, brake or steer
\* command to the vehicle.
C13_NoControlWhileResetting ==
    (/\ frame.ran
     /\ vehicle.isResetting
     /\ (frame.resetCalls = 0 \/ AtCall.vehicle.isResetting)
     /\ Held \cap ControlCodes # {})
        => \A j \in 1..Len(frame.log) : frame.log[j] \notin ControlCalls

\* The chassis as the first timer of the reset placed it.
Placed == frame.placed[1]

Stepped == frame.stepped[1]

\* C15: in a tick in which the world step leaves the chassis with an angular
\* velocity above 20 rad/s, a reset is requested: resetCar is called.
C15_SpinRequestsReset ==
    (frame.ran /\ Dot(Stepped.angularVelocity, Stepped.angularVelocity) > 20 * 20)
        => frame.resetCalls >= 1

\* C16: in a tick in which the world step leaves the chassis below the floor
\* threshold (y < -5 m), a reset is requested: resetCar is called.
C16_FallRequestsReset ==
    (frame.ran /\ Stepped.position.y < -50)
        => frame.resetCalls >= 1

\* C17: the active physics world never holds more than one chassis body, and
\* holds exactly one whenever the game is started with a vehicle.
C17_OneChassisBody ==
    /\ physicsWorld.chassisBodies <= 1
    /\ gameStarted => physicsWorld.chassisBodies = 1

\* The wheel commands updateVehicle computes from the keys.
CommandCalls == {"accelerate", "brake", "steer"}

\* C18: in every tick that maps the keys to commands, the accelerate, brake and
\* steer calls come before the world step, and the world step comes before the
\* wheel read-back (vehicle.update).
C18_CommandsBeforeWorldStep ==
    frame.mapped =>
        \A i, j \in 1..Len(frame.log) :
            /\ (frame.log[i] \in CommandCalls /\ frame.log[j] = "world.step") => i < j
            /\ (frame.log[i] = "world.step" /\ frame.log[j] = "update") => i < j

\* C19: immediately after Vehicle.reset the accumulated force and the accumulated
\* torque of the chassis are both zero.
C19_ResetClearsAccumulators ==
    last.op = "reset" =>
        /\ vehicle.chassisBody.force = Zero3
        /\ vehicle.chassisBody.torque = Zero3

\* C20: immediately after Vehicle.reset every wheel has engine force 0, a brake
\* of 0 or 0.1 * maxBrakeForce and its suspension at the rest length, and both
\* front wheels have steering value 0.
C20_ResetWheelState ==
    last.op = "reset" =>
        \A i \in Wheels :
            /\ vehicle.wheelInfos[i].engineForce = 0
            /\ vehicle.wheelInfos[i].brake \in {0, (maxBrakeForce(vehicle.build) * 50) \div 10}
            /\ i < 2 => vehicle.wheelInfos[i].steering = 0
            /\ vehicle.wheelInfos[i].suspensionLength = suspensionRestLength(vehicle.build)

\* C21: a steer call changes the steering value of the front wheels 0 and 1
\* only: the steering of the rear wheels 2 and 3 and the engine force and
\* brake of all four wheels are as before the call.
C21_SteerFrontWheelsOnly ==
    [][last'.op = "steer" =>
          \A i \in Wheels :
              /\ vehicle'.wheelInfos[i].engineForce = vehicle.wheelInfos[i].engineForce
              /\ vehicle'.wheelInfos[i].brake = vehicle.wheelInfos[i].brake
              /\ i >= 2 => vehicle'.wheelInfos[i].steering = vehicle.wheelInfos[i].steering]_vars

\* A steer call on a vehicle that is driven and braked.
C21_Witness ==
    /\ last.op = "steer"
    /\ vehicle.wheelInfos[0].steering = -1000
    /\ vehicle.wheelInfos[1].steering = -1000
    /\ vehicle.wheelInfos[2].steering = 0
    /\ vehicle.wheelInfos[2].engineForce # 0
    /\ vehicle.wheelInfos[3].brake > 0

\* C22 as stated: at the end of a tick in which accelerate is held and neither
\* the reset key nor the emergency brake is, the brake of every wheel is 0.
C22_NoBrakeWhileAccelerating ==
    (frame.mapped /\ accelerateFlag(keys) /\ ~resetFlag(keys) /\ ~emergencyBrakeFlag(keys))
        => \A i \in Wheels : vehicle.wheelInfos[i].brake = 0

\* C22 amended: at the end of a tick in which accelerate is held, neither the
\* reset key nor the emergency brake is, and the recovery check starts no reset,
\* the brake of every wheel is 0.
C22_AccelerateReleasesBrake ==
    (frame.mapped /\ accelerateFlag(keys) /\ ~resetFlag(keys) /\ ~emergencyBrakeFlag(keys)
        /\ (frame.resetCalls = 0 \/ AtCall.vehicle.isResetting))
        => \A i \in Wheels : vehicle.wheelInfos[i].brake = 0

\* Accelerate held from a standstill: the engine drives, no wheel brakes.
C22_Witness ==
    /\ frame.mapped
    /\ keys["ArrowUp"]
    /\ frame.currentSpeed < 10
    /\ frame.resetCalls = 0
    /\ vehicle.wheelInfos[2].engineForce # 0
    /\ vehicle.wheelInfos[2].brake = 0

\* The engine force currentThrottle * maxForce, before any slope adjustment,
\* in 1/50 N.
BaseEngineForce == (vehicle.currentThrottle * maxForce("ramped") * 50) \div ThrottleOne

\* C23: after an accelerate call in the ramped build with the throttle open, the
\* engine force commanded is above the base force when the chassis is pitched
\* nose up (climbing), below it when pitched nose down, and equal to it when
\* the chassis is level.
C23_SlopeScalesEngineForce ==
    (last.op = "accelerate" /\ vehicle.build = "ramped" /\ vehicle.currentThrottle > 0) =>
        LET pitch == ForwardOf(vehicle.chassisBody.quaternion).y
            front == vehicle.wheelInfos[0].engineForce
            flat  == (BaseEngineForce * 4) \div 10
        IN  /\ pitch > 0 => front > flat
            /\ pitch < 0 => front < flat
            /\ pitch = 0 => front = flat

\* C24: in a tick in which the world step leaves a coordinate of the chassis
\* position not a number, a reset is requested: resetCar is called.
C24_NonFiniteRequestsReset ==
    (frame.ran /\ \E a \in {"x", "y", "z"} : Stepped.position[a] = NaN)
        => frame.resetCalls >= 1

\* C25: no step taken while the game is started removes the chassis and wheel
\* bodies of the current vehicle from the physics world.
C25_VehicleBodiesStayInWorld ==
    [][(gameStarted /\ gameStarted' /\ vehicle.inWorld) => vehicle'.inWorld]_vars

\* C26: in every reachable state exactly one requestAnimationFrame chain runs
\* animate, so a display refresh performs one physicsWorld.update and one
\* updateVehicle.
C26_OneAnimationLoop == animationLoops = 1

\* Simulation frames per second at the fixed time step: 60.
FrameRate == 600 \div fixedTimeStep

\* C27: in the ramped build one truthy accelerate call raises an unsaturated
\* throttle by throttleIncreaseRate / 60, one falsy call lowers it by
\* throttleDecreaseRate / 60, and the engine force commanded is
\* currentThrottle * maxForce, 40% of it on each front wheel.
C27_ThrottleRatePerFrame ==
    [][(last'.op = "accelerate" /\ vehicle.build = "ramped") =>
          /\ (last'.truthy /\ vehicle'.currentThrottle < ThrottleOne) =>
                 FrameRate * (vehicle'.currentThrottle - vehicle.currentThrottle)
                     = throttleIncreaseRate
          /\ (~last'.truthy /\ vehicle'.currentThrottle > 0) =>
                 FrameRate * (vehicle.currentThrottle - vehicle'.currentThrottle)
                     = throttleDecreaseRate
          /\ vehicle'.wheelInfos[0].engineForce
                 = (4 * ((vehicle'.currentThrottle * maxForce("ramped") * 50) \div ThrottleOne))
                       \div 10]_vars

\* C28: at the end of a tick in which brake is held below 0.2 m/s (the reverse
\* request), the engine force on every wheel has the sign opposite to the force
\* an accelerate call with a positive magnitude commands on that wheel.
C28_ReverseOpposesForward ==
    (frame.mapped /\ brakeFlag(keys) /\ ~accelerateFlag(keys) /\ ~emergencyBrakeFlag(keys)
        /\ frame.currentSpeed < 20 /\ frame.resetCalls = 0)
        => \A i \in Wheels :
              vehicle.wheelInfos[i].engineForce
                  * accelerate(vehicle, Num(maxForce(vehicle.build))).wheelInfos[i].engineForce
                  < 0

\* C29: a resetCar timeout that fires when the current vehicle is not the one
\* the reset was accepted for (startGame has replaced it: the current vehicle
\* is not resetting) leaves the vehicle and the physics world as they are.
C29_ResetStagesKeepToTheirVehicle ==
    [][(last'.op = "timer" /\ ~vehicle.isResetting)
          => (vehicle' = vehicle /\ physicsWorld' = physicsWorld)]_vars

\* C30: the timeouts of resetCar (the first calls Vehicle.reset) leave
\* previousSteerValue as it is while the first sets the front wheels' steering
\* to 0; a tick that maps the keys from a state with the front wheels at 0 and
\* a previousSteerValue other than 0 blends from that previousSteerValue, and
\* with neither left nor right held applies previousSteerValue * (1 - b).
C30_ResetKeepsPreviousSteer ==
    [][/\ last'.op = "timer" =>
              /\ vehicle'.previousSteerValue = vehicle.previousSteerValue
              /\ Head(timers).stage = 1 =>
                     /\ vehicle'.wheelInfos[0].steering = 0
                     /\ vehicle'.wheelInfos[1].steering = 0
       /\ (frame'.mapped /\ vehicle.wheelInfos[0].steering = 0
              /\ previousSteerOf(vehicle) # 0) =>
              /\ frame'.blendFrom = previousSteerOf(vehicle)
              /\ (~leftFlag(keys) /\ ~rightFlag(keys)) =>
                     \A i \in {0, 1} :
                         vehicle'.wheelInfos[i].steering =
                             clampedSteer(vehicle.build,
                                          blendSteer(previousSteerOf(vehicle), 0,
                                                     steerBlendFactor(frame'.currentSpeed)))]_vars

\* A tick after the first timeout of a reset, no steering key held: the front
\* wheels steer by what is left of the value from before the reset.
C30_Witness ==
    /\ frame.mapped
    /\ timers # <<>>
    /\ Head(timers).stage = 2
    /\ frame.blendFrom # 0
    /\ ~leftFlag(keys)
    /\ ~rightFlag(keys)
    /\ vehicle.wheelInfos[0].steering # 0
    /\ vehicle.wheelInfos[0].steering = vehicle.previousSteerValue[1]

====
